---- MODULE Spec2Model ----
(***************************************************************************)
(* A model of the validation engine and constrained value types of         *)
(* cyclonedx-bom: NormalizedString, the SPDX and DateTime wrappers, the    *)
(* ValidationResult algebra and the validate_with_context traversals of    *)
(* Properties, Advisories and Licenses.                                    *)
(*                                                                         *)
(* Every operation of the crate is a pure function of owned values, so the *)
(* state is the value an operation is applied to (node), the raw input it  *)
(* was built from (input), the path handed to validation (context) and the *)
(* outcome (result, error).  Strings are sequences of characters over a    *)
(* small alphabet; documents are built element by element as a caller      *)
(* fills the public Vec of a sequence type.                                *)
(***************************************************************************)
EXTENDS Naturals, Integers, Sequences, FiniteSets

VARIABLES
    op,       \* the operation that produced the current state
    input,    \* the raw argument of the last constructor call
    node,     \* the value under construction / validation: [kind, v]
    context,  \* the ValidationContext handed to validate_with_context
    result,   \* the ValidationResult of the last validation (or merges)
    error,    \* the typed error of the last failed constructor, "" if none
    checked   \* TRUE iff node was built through checked constructors only

vars == <<op, input, node, context, result, error, checked>>

-----------------------------------------------------------------------------
(* Bounds *)

\* longest raw string given to NormalizedString::new / new_unchecked
MaxLen == 3
\* most constrained leaves (name/id/expression, text, url, title, value) in a document
MaxLeaves == 4
\* longest reason list of an operand of merge
MaxReasons == 2
\* most fragments in a raw expression string given to an SpdxExpression constructor
MaxExprLen == 3

-----------------------------------------------------------------------------
(* Characters and strings *)

CR == "CR"
LF == "LF"
TAB == "TAB"
SP == "SP"

\* "a" stands for every character that is not CR, LF, TAB or space
Chars == {"a", SP, CR, LF, TAB}

Strings == UNION {[1..n -> Chars] : n \in 0..MaxLen}

\* str::contains(char)
contains(s, c) == \E i \in 1..Len(s) : s[i] = c

\* str::contains(&str) for a two-character pattern
contains2(s, c1, c2) == \E i \in 1..(Len(s) - 1) : s[i] = c1 /\ s[i + 1] = c2

\* str::replace(&str, &str) for a two-character pattern: non-overlapping
\* matches, scanned left to right
RECURSIVE replace2(_, _, _, _)
replace2(s, c1, c2, to) ==
    IF Len(s) = 0 THEN <<>>
    ELSE IF Len(s) >= 2 /\ s[1] = c1 /\ s[2] = c2
         THEN to \o replace2(SubSeq(s, 3, Len(s)), c1, c2, to)
         ELSE <<s[1]>> \o replace2(Tail(s), c1, c2, to)

\* str::replace([char; N], &str): every character of the set is replaced
RECURSIVE replace_chars(_, _, _)
replace_chars(s, set, to) ==
    IF Len(s) = 0 THEN <<>>
    ELSE (IF s[1] \in set THEN to ELSE <<s[1]>>) \o replace_chars(Tail(s), set, to)

-----------------------------------------------------------------------------
(* crate::validation: ValidationContext, FailureReason, ValidationResult *)

Array(index) == [type |-> "Array", index |-> index]
Struct(struct_name, field_name) ==
    [type |-> "Struct", struct_name |-> struct_name, field_name |-> field_name]
EnumVariant(variant_name) == [type |-> "EnumVariant", variant_name |-> variant_name]

\* ValidationContext::new() / default()
ValidationContext_new == <<>>

extend_context(context_, components) == context_ \o components
with_struct(context_, struct_name, field_name) ==
    extend_context(context_, <<Struct(struct_name, field_name)>>)
with_index(context_, index) == extend_context(context_, <<Array(index)>>)

FailureReason(message, context_) == [message |-> message, context |-> context_]

Passed == [tag |-> "Passed"]
Failed(reasons) == [tag |-> "Failed", reasons |-> reasons]

\* ValidationResult::default()
ValidationResult_default == Passed

\* ValidationResult::failure(message, context)
failure(message, context_) == Failed(<<FailureReason(message, context_)>>)

\* ValidationResult::merge(self, other)
merge(self, other) ==
    IF self.tag = "Passed" THEN other
    ELSE IF other.tag = "Passed" THEN self
    ELSE Failed(self.reasons \o other.reasons)

\* results.into_iter().fold(ValidationResult::default(), |acc, result| acc.merge(result))
RECURSIVE fold_from(_, _)
fold_from(acc, results) ==
    IF Len(results) = 0 THEN acc
    ELSE fold_from(merge(acc, Head(results)), Tail(results))

\* variant: the closure merges the wrong way round, |acc, result| result.merge(acc)
RECURSIVE fold_from_swapped(_, _)
fold_from_swapped(acc, results) ==
    IF Len(results) = 0 THEN acc
    ELSE fold_from_swapped(merge(Head(results), acc), Tail(results))

fold_results_swapped(results) == fold_from_swapped(ValidationResult_default, results)

fold_results(results) == fold_from(ValidationResult_default, results)

\* the reasons an outcome carries (none for Passed)
ReasonsOf(r) == IF r.tag = "Failed" THEN r.reasons ELSE <<>>

NoResult == [tag |-> "None"]

-----------------------------------------------------------------------------
(* external_models::normalized_string *)

MsgNormalizedString == "NormalizedString contains invalid characters \\r \\n \\t or \\r\\n"

\* variant: the tab is missing from the character set
NormalizedString_new_no_tab(value) ==
    replace_chars(replace2(value, CR, LF, <<SP>>), {CR, LF}, <<SP>>)

\* variant: the CRLF pair is not replaced first
NormalizedString_new_no_crlf(value) ==
    replace_chars(value, {CR, LF, TAB}, <<SP>>)

\* variant: the invalid characters are removed instead of replaced by a space
NormalizedString_new_strip(value) ==
    replace_chars(replace2(value, CR, LF, <<>>), {CR, LF, TAB}, <<>>)

\* NormalizedString::new(value)
NormalizedString_new(value) ==
    replace_chars(replace2(value, CR, LF, <<SP>>), {CR, LF, TAB}, <<SP>>)

\* NormalizedString::new_unchecked(value) and the tuple-struct literal
NormalizedString_new_unchecked(value) == value

\* variant: a line feed on its own is not looked for
NormalizedString_validate_with_context_no_lf(self, context_) ==
    IF \/ contains2(self, CR, LF)
       \/ contains(self, CR)
       \/ contains(self, TAB)
    THEN failure(MsgNormalizedString, context_)
    ELSE Passed

\* <NormalizedString as Validate>::validate_with_context
NormalizedString_validate_with_context(self, context_) ==
    IF \/ contains2(self, CR, LF)
       \/ contains(self, CR)
       \/ contains(self, LF)
       \/ contains(self, TAB)
    THEN failure(MsgNormalizedString, context_)
    ELSE Passed

-----------------------------------------------------------------------------
(* Option<T>: None is the empty sequence, Some(x) the one-element sequence *)

None == <<>>
Some(x) == <<x>>

-----------------------------------------------------------------------------
(* external_models::uri and models::attached_text: leaves whose validators *)
(* live outside the files at hand; each reports at most one reason, at the *)
(* path it is given.                                                       *)

GoodUri == "https://example.com"
BadUri == "invalid url"
Uris == {GoodUri, BadUri}

MsgUri == "Uri does not conform to RFC 3986"

Uri_validate_with_context(self, context_) ==
    IF self = GoodUri THEN Passed ELSE failure(MsgUri, context_)

GoodText == "attached text"
BadText == "invalid attached text"
AttachedTexts == {GoodText, BadText}

MsgAttachedText == "AttachedText is not valid"

AttachedText_validate_with_context(self, context_) ==
    IF self = GoodText THEN Passed ELSE failure(MsgAttachedText, context_)

-----------------------------------------------------------------------------
(* external_models::spdx *)

\* A license string is a sequence of text fragments: a license term, a
\* loosely spelled license name, the operator " OR " (with its blanks), the
\* slash, or text that is no term.
OR == " OR "
SLASH == "/"
ExprFragments == {"MIT", "Apache-2.0", "Apache 2.0", OR, SLASH, "not a real license"}

\* the license catalog of the spdx crate, cut down to two entries
LicenseCatalog == {"MIT", "Apache-2.0"}

\* spdx::license_id(&value).is_some(): exact, case-sensitive catalog match
license_id(value) == Len(value) = 1 /\ value[1] \in LicenseCatalog

\* the loose spellings spdx::imprecise_license_id knows, with the catalog
\* entry each stands for
ImpreciseNames == {"MIT", "mit", "Apache-2.0", "Apache 2.0"}
canonical_name(name) == IF name \in {"MIT", "mit"} THEN "MIT" ELSE "Apache-2.0"

\* spdx::imprecise_license_id(&value).map(|matched| matched.0.name): the entry
\* whose loose spelling the string starts with
imprecise_license_id(value) ==
    IF Len(value) >= 1 /\ value[1] \in ImpreciseNames
    THEN Some(<<canonical_name(value[1])>>)
    ELSE None

Ok(v) == [ok |-> TRUE, v |-> v]
Err(e) == [ok |-> FALSE, err |-> e]

\* variant: the string that was passed in is stored, not the catalog's name
SpdxIdentifier_imprecise_keeps_input(value) ==
    IF imprecise_license_id(value) # None
    THEN Ok(value)
    ELSE Err("InvalidImpreciseSpdxIdentifier")

\* SpdxIdentifier::imprecise
SpdxIdentifier_imprecise(value) ==
    LET matched_license == imprecise_license_id(value)
    IN  IF matched_license # None
        THEN Ok(matched_license[1])
        ELSE Err("InvalidImpreciseSpdxIdentifier")

\* <SpdxIdentifier as TryFrom<String>>::try_from
SpdxIdentifier_try_from(value) ==
    IF license_id(value) THEN Ok(value) ELSE Err("InvalidSpdxIdentifier")

\* <SpdxIdentifier as ToString>::to_string: self.0.clone()
SpdxIdentifier_to_string(self) == self

MsgSpdxIdentifier == "SPDX identifier is not valid"

\* variant: a catalog entry at the start of the string is enough
SpdxIdentifier_validate_with_context_prefix(self, context_) ==
    IF Len(self) >= 1 /\ self[1] \in LicenseCatalog
    THEN Passed
    ELSE failure(MsgSpdxIdentifier, context_)

\* <SpdxIdentifier as Validate>::validate_with_context
SpdxIdentifier_validate_with_context(self, context_) ==
    IF SpdxIdentifier_try_from(self).ok
    THEN Passed
    ELSE failure(MsgSpdxIdentifier, context_)

\* spdx::Expression::parse(&value).is_ok(): term (OR term)*
Expression_parse(value) ==
    /\ Len(value) % 2 = 1
    /\ \A i \in 1..Len(value) :
        IF i % 2 = 1 THEN value[i] \in LicenseCatalog ELSE value[i] = OR

\* spdx::Expression::parse_mode(&value, ParseMode::LAX).is_ok(): as the strict
\* grammar, with the slash accepted as a synonym of OR and a loosely spelled
\* name accepted as a term
Expression_parse_mode_lax(value) ==
    /\ Len(value) % 2 = 1
    /\ \A i \in 1..Len(value) :
        IF i % 2 = 1
        THEN value[i] \in LicenseCatalog \cup ImpreciseNames
        ELSE value[i] \in {OR, SLASH}

\* <SpdxExpression as TryFrom<String>>::try_from
SpdxExpression_try_from(value) ==
    IF Expression_parse(value) THEN Ok(value) ELSE Err("InvalidSpdxExpression")

\* variant: the error of the strict parse is handed on as it is
convert_lax_passes_error_on(self) ==
    SpdxExpression_try_from(replace_chars(self, {SLASH}, <<OR>>))

\* SpdxExpression::convert_lax
convert_lax(self) ==
    LET converted == replace_chars(self, {SLASH}, <<OR>>)
        r == SpdxExpression_try_from(converted)
    IN  IF r.ok THEN Ok(r.v) ELSE Err("InvalidLaxSpdxExpression")

\* variant: the string as given must already satisfy the strict grammar
parse_lax_strict_first(value) ==
    IF Expression_parse(value)
    THEN convert_lax(value)
    ELSE Err("InvalidLaxSpdxExpression")

\* SpdxExpression::parse_lax
parse_lax(value) ==
    IF Expression_parse_mode_lax(value)
    THEN convert_lax(value)
    ELSE Err("InvalidLaxSpdxExpression")

\* <SpdxExpression as ToString>::to_string: self.0.clone()
SpdxExpression_to_string(self) == self

MsgSpdxExpression == "SPDX expression is not valid"

\* variant: the stored string is judged by the lax grammar
SpdxExpression_validate_with_context_lax(self, context_) ==
    IF Expression_parse_mode_lax(self)
    THEN Passed
    ELSE failure(MsgSpdxExpression, context_)

\* <SpdxExpression as Validate>::validate_with_context
SpdxExpression_validate_with_context(self, context_) ==
    IF SpdxExpression_try_from(self).ok
    THEN Passed
    ELSE failure(MsgSpdxExpression, context_)

-----------------------------------------------------------------------------
(* external_models::date_time *)

\* OffsetDateTime::parse(&value, &Iso8601::DEFAULT).is_ok()
OffsetDateTime_parse(value) ==
    value \in {"1970-01-01T00:00:00Z", "1969-06-28T01:20:00.00-04:00"}

\* variant: the parsed instant is stored in the spelling the formatter of
\* now() gives it, not in the spelling of the input
DateTime_try_from_reformatted(value) ==
    IF OffsetDateTime_parse(value)
    THEN Ok(IF value = "1969-06-28T01:20:00.00-04:00"
            THEN "1969-06-28T01:20:00.000000000-04:00"
            ELSE "1970-01-01T00:00:00.000000000Z")
    ELSE Err("InvalidDateTime")

\* <DateTime as TryFrom<String>>::try_from
DateTime_try_from(value) ==
    IF OffsetDateTime_parse(value) THEN Ok(value) ELSE Err("InvalidDateTime")

\* <DateTime as ToString>::to_string: self.0.clone()
DateTime_to_string(self) == self

MsgDateTime == "DateTime does not conform to ISO 8601"

\* <DateTime as Validate>::validate_with_context
DateTime_validate_with_context(self, context_) ==
    IF OffsetDateTime_parse(self) THEN Passed ELSE failure(MsgDateTime, context_)

-----------------------------------------------------------------------------
(* models::property *)

\* struct literal Property { name, value }
Property(name, value) == [name |-> name, value |-> value]

\* variant: the value is wrapped without being normalized
Property_new_unnormalized(name, value) == Property(name, NormalizedString_new_unchecked(value))

\* Property::new(name, value)
Property_new(name, value) == Property(name, NormalizedString_new(value))

\* <Property as Validate>::validate_with_context
Property_validate_with_context(self, context_) ==
    LET value_context == with_struct(context_, "Property", "value")
        results == <<NormalizedString_validate_with_context(self.value, value_context)>>
    IN  fold_results(results)

\* variant: the path carries the one-based position of the element
Properties_validate_with_context_one_based(self, context_) ==
    LET results == [i \in 1..Len(self) |->
            LET property_context == extend_context(context_, <<Array(i)>>)
            IN  Property_validate_with_context(self[i], property_context)]
    IN  fold_results(results)

\* <Properties as Validate>::validate_with_context; self is the Vec, whose
\* element at zero-based index i is self[i + 1]
Properties_validate_with_context(self, context_) ==
    LET results == [i \in 1..Len(self) |->
            LET index == i - 1
                property_context == extend_context(context_, <<Array(index)>>)
            IN  Property_validate_with_context(self[i], property_context)]
    IN  fold_results(results)

-----------------------------------------------------------------------------
(* specs::v1_3::property: the wire form, whose value is a plain String *)

\* struct literal of the wire Property { name, value }
v1_3_Property(name, value) == [name |-> name, value |-> value]

\* <v1_3::Property as From<models::property::Property>>::from: value is other.value.0
v1_3_Property_from(other) == v1_3_Property(other.name, other.value)

\* variant: the value is normalized on the way in
Property_from_v1_3_normalizing(other) ==
    Property(other.name, NormalizedString_new(other.value))

\* <models::property::Property as From<v1_3::Property>>::from
Property_from_v1_3(other) ==
    Property(other.name, NormalizedString_new_unchecked(other.value))

\* <v1_3::Properties as From<models::property::Properties>>::from:
\* other.0.into_iter().map(Into::into).collect()
v1_3_Properties_from(other) ==
    [i \in 1..Len(other) |-> v1_3_Property_from(other[i])]

\* variant: the elements are collected in reverse order
Properties_from_v1_3_reversed(other) ==
    [i \in 1..Len(other) |-> Property_from_v1_3(other[Len(other) + 1 - i])]

\* <models::property::Properties as From<v1_3::Properties>>::from
Properties_from_v1_3(other) ==
    [i \in 1..Len(other) |-> Property_from_v1_3(other[i])]

-----------------------------------------------------------------------------
(* xml::EventWriter and the ToXml of specs::v1_3::property *)

PROPERTIES_TAG == "properties"
PROPERTY_TAG == "property"

\* XmlEvent::start_element(name) with its .attr(name, value) pairs,
\* XmlEvent::characters(text) and XmlEvent::end_element()
attr(name, value) == [name |-> name, value |-> value]
start_element(name, attributes) ==
    [event |-> "start_element", name |-> name, attributes |-> attributes]
characters(text) == [event |-> "characters", text |-> text]
end_element == [event |-> "end_element"]

\* an xml::EventWriter: the events it has written and the number of calls of
\* write so far; the call numbered fail_at fails in the underlying
\* io::Write (0: no call fails)
EventWriter(fail_at) == [events |-> <<>>, writes |-> 0, fail_at |-> fail_at]

\* XmlWriteError, as to_xml_write_error(element) builds it from the cause
XmlWriteError(element) == [error |-> "XmlWriteError", element |-> element]

\* what a call that takes &mut EventWriter leaves: the writer and Ok(()) or Err
Wrote(writer) == [ok |-> TRUE, writer |-> writer]
WriteFailed(writer, err) == [ok |-> FALSE, writer |-> writer, err |-> err]

\* writer.write(event).map_err(to_xml_write_error(tag))
write(writer, event, tag) ==
    LET counted == [writer EXCEPT !.writes = @ + 1]
    IN  IF counted.writes = writer.fail_at
        THEN WriteFailed(counted, XmlWriteError(tag))
        ELSE Wrote([counted EXCEPT !.events = Append(@, event)])

\* variant: the value is written as the attribute and the name as the text
Property_write_xml_element_value_as_attribute(self, writer) ==
    LET started == write(writer,
                         start_element(PROPERTY_TAG, <<attr("name", self.value)>>),
                         PROPERTY_TAG)
    IN  IF ~started.ok THEN started
        ELSE LET text == write(started.writer, characters(self.name), PROPERTY_TAG)
             IN  IF ~text.ok THEN text
                 ELSE write(text.writer, end_element, PROPERTY_TAG)

\* <v1_3::Property as ToXml>::write_xml_element: each `?` returns the error
Property_write_xml_element(self, writer) ==
    LET started == write(writer,
                         start_element(PROPERTY_TAG, <<attr("name", self.name)>>),
                         PROPERTY_TAG)
    IN  IF ~started.ok THEN started
        ELSE LET text == write(started.writer, characters(self.value), PROPERTY_TAG)
             IN  IF ~text.ok THEN text
                 ELSE write(text.writer, end_element, PROPERTY_TAG)

\* variant of the loop: the error of a property is dropped and the loop goes on
RECURSIVE write_each_property_goes_on(_, _, _)
write_each_property_goes_on(self, i, writer) ==
    IF i > Len(self)
    THEN Wrote(writer)
    ELSE LET r == Property_write_xml_element(self[i], writer)
         IN  write_each_property_goes_on(self, i + 1, r.writer)

\* for property in &self.0 { property.write_xml_element(writer)?; }
RECURSIVE write_each_property(_, _, _)
write_each_property(self, i, writer) ==
    IF i > Len(self)
    THEN Wrote(writer)
    ELSE LET r == Property_write_xml_element(self[i], writer)
         IN  IF ~r.ok THEN r ELSE write_each_property(self, i + 1, r.writer)

\* variant: the errors of the properties are dropped
Properties_write_xml_element_goes_on(self, writer) ==
    LET started == write(writer, start_element(PROPERTIES_TAG, <<>>), PROPERTIES_TAG)
    IN  IF ~started.ok THEN started
        ELSE LET children == write_each_property_goes_on(self, 1, started.writer)
             IN  write(children.writer, end_element, PROPERTIES_TAG)

\* <v1_3::Properties as ToXml>::write_xml_element
Properties_write_xml_element(self, writer) ==
    LET started == write(writer, start_element(PROPERTIES_TAG, <<>>), PROPERTIES_TAG)
    IN  IF ~started.ok THEN started
        ELSE LET children == write_each_property(self, 1, started.writer)
             IN  IF ~children.ok THEN children
                 ELSE write(children.writer, end_element, PROPERTIES_TAG)

-----------------------------------------------------------------------------
(* models::advisory *)

\* struct literal Advisory { title, url }
Advisory(title, url) == [title |-> title, url |-> url]

\* variant: returns at the first failing field
Advisory_validate_with_context_short_circuit(self, context_) ==
    LET title_result ==
            IF self.title # None
            THEN NormalizedString_validate_with_context(
                     self.title[1], with_struct(context_, "Advisory", "title"))
            ELSE Passed
    IN  IF title_result.tag = "Failed"
        THEN title_result
        ELSE Uri_validate_with_context(self.url, with_struct(context_, "Advisory", "url"))

\* variant: the url extends the path that was extended for the title
Advisory_validate_with_context_leaking(self, context_) ==
    LET title_context ==
            IF self.title # None
            THEN with_struct(context_, "Advisory", "title")
            ELSE context_
        title_results ==
            IF self.title # None
            THEN <<NormalizedString_validate_with_context(self.title[1], title_context)>>
            ELSE <<>>
        url_context == with_struct(title_context, "Advisory", "url")
        results == title_results \o <<Uri_validate_with_context(self.url, url_context)>>
    IN  fold_results(results)

\* <Advisory as Validate>::validate_with_context
Advisory_validate_with_context(self, context_) ==
    LET title_results ==
            IF self.title # None
            THEN <<NormalizedString_validate_with_context(
                       self.title[1], with_struct(context_, "Advisory", "title"))>>
            ELSE <<>>
        url_context == with_struct(context_, "Advisory", "url")
        results == title_results \o <<Uri_validate_with_context(self.url, url_context)>>
    IN  fold_results(results)

\* variant: the index is added to an empty path, not to the path handed in
Advisories_validate_with_context_from_root(self, context_) ==
    LET results == [i \in 1..Len(self) |->
            LET index == i - 1
            IN  Advisory_validate_with_context(
                    self[i], with_index(ValidationContext_new, index))]
    IN  fold_results(results)

\* <Advisories as Validate>::validate_with_context
Advisories_validate_with_context(self, context_) ==
    LET results == [i \in 1..Len(self) |->
            LET index == i - 1
            IN  Advisory_validate_with_context(self[i], with_index(context_, index))]
    IN  fold_results(results)

-----------------------------------------------------------------------------
(* models::license *)

\* enum LicenseIdentifier { SpdxId(SpdxIdentifier), Name(NormalizedString) }
SpdxId(id) == [variant |-> "SpdxId", v |-> id]
Name(name) == [variant |-> "Name", v |-> name]

\* struct literal License { license_identifier, text, url }
License(license_identifier, text, url) ==
    [license_identifier |-> license_identifier, text |-> text, url |-> url]

\* enum LicenseChoice { License(License), Expression(SpdxExpression) }
LicenseChoice_License(license) == [variant |-> "License", license |-> license]
LicenseChoice_Expression(expression) == [variant |-> "Expression", expression |-> expression]

\* License::named_license(license)
named_license(license) == License(Name(NormalizedString_new(license)), None, None)

\* License::license_id(license)
License_license_id(license) ==
    LET r == SpdxIdentifier_try_from(license)
    IN  IF r.ok THEN Ok(License(SpdxId(r.v), None, None)) ELSE Err(r.err)

\* variant: the payload of Name is checked by the rule of SpdxId
LicenseIdentifier_validate_with_context_name_as_spdx_id(self, context_) ==
    IF self.variant = "Name"
    THEN LET name_context == extend_context(context_, <<EnumVariant("Name")>>)
         IN  SpdxIdentifier_validate_with_context(self.v, name_context)
    ELSE LET spdxid_context == extend_context(context_, <<EnumVariant("SpdxId")>>)
         IN  SpdxIdentifier_validate_with_context(self.v, spdxid_context)

\* <LicenseIdentifier as Validate>::validate_with_context
LicenseIdentifier_validate_with_context(self, context_) ==
    IF self.variant = "Name"
    THEN LET name_context == extend_context(context_, <<EnumVariant("Name")>>)
         IN  NormalizedString_validate_with_context(self.v, name_context)
    ELSE LET spdxid_context == extend_context(context_, <<EnumVariant("SpdxId")>>)
         IN  SpdxIdentifier_validate_with_context(self.v, spdxid_context)

\* variant: the url is checked before the text
License_validate_with_context_url_first(self, context_) ==
    LET license_identifier_context == with_struct(context_, "License", "license_identifier")
        id_results == <<LicenseIdentifier_validate_with_context(
                            self.license_identifier, license_identifier_context)>>
        text_results ==
            IF self.text # None
            THEN <<AttachedText_validate_with_context(
                       self.text[1], with_struct(context_, "License", "text"))>>
            ELSE <<>>
        url_results ==
            IF self.url # None
            THEN <<Uri_validate_with_context(
                       self.url[1], with_struct(context_, "License", "url"))>>
            ELSE <<>>
        results == id_results \o url_results \o text_results
    IN  fold_results(results)

\* variant: an absent text is reported as a missing required field would be
License_validate_with_context_text_required(self, context_) ==
    LET license_identifier_context == with_struct(context_, "License", "license_identifier")
        id_results == <<LicenseIdentifier_validate_with_context(
                            self.license_identifier, license_identifier_context)>>
        text_results ==
            IF self.text # None
            THEN <<AttachedText_validate_with_context(
                       self.text[1], with_struct(context_, "License", "text"))>>
            ELSE <<failure(MsgAttachedText, with_struct(context_, "License", "text"))>>
        url_results ==
            IF self.url # None
            THEN <<Uri_validate_with_context(
                       self.url[1], with_struct(context_, "License", "url"))>>
            ELSE <<>>
        results == id_results \o text_results \o url_results
    IN  fold_results(results)

\* <License as Validate>::validate_with_context
License_validate_with_context(self, context_) ==
    LET license_identifier_context == with_struct(context_, "License", "license_identifier")
        id_results == <<LicenseIdentifier_validate_with_context(
                            self.license_identifier, license_identifier_context)>>
        text_results ==
            IF self.text # None
            THEN <<AttachedText_validate_with_context(
                       self.text[1], with_struct(context_, "License", "text"))>>
            ELSE <<>>
        url_results ==
            IF self.url # None
            THEN <<Uri_validate_with_context(
                       self.url[1], with_struct(context_, "License", "url"))>>
            ELSE <<>>
        results == id_results \o text_results \o url_results
    IN  fold_results(results)

\* variant: the result of the Expression arm is never pushed
LicenseChoice_validate_with_context_drops_expression(self, context_) ==
    IF self.variant = "License"
    THEN LET license_context == extend_context(context_, <<EnumVariant("License")>>)
             results == <<License_validate_with_context(self.license, license_context)>>
         IN  fold_results(results)
    ELSE fold_results(<<>>)

\* <LicenseChoice as Validate>::validate_with_context
LicenseChoice_validate_with_context(self, context_) ==
    IF self.variant = "License"
    THEN LET license_context == extend_context(context_, <<EnumVariant("License")>>)
             results == <<License_validate_with_context(self.license, license_context)>>
         IN  fold_results(results)
    ELSE LET expression_context == extend_context(context_, <<EnumVariant("Expression")>>)
             results == <<SpdxExpression_validate_with_context(self.expression, expression_context)>>
         IN  fold_results(results)

\* variant: each result replaces the one before it instead of being pushed
Licenses_validate_with_context_keeps_last(self, context_) ==
    LET results == [i \in 1..Len(self) |->
            LET index == i - 1
                license_choice_context == extend_context(context_, <<Array(index)>>)
            IN  LicenseChoice_validate_with_context(self[i], license_choice_context)]
    IN  fold_results(IF Len(results) = 0 THEN <<>> ELSE <<results[Len(results)]>>)

\* <Licenses as Validate>::validate_with_context
Licenses_validate_with_context(self, context_) ==
    LET results == [i \in 1..Len(self) |->
            LET index == i - 1
                license_choice_context == extend_context(context_, <<Array(index)>>)
            IN  LicenseChoice_validate_with_context(self[i], license_choice_context)]
    IN  fold_results(results)

-----------------------------------------------------------------------------
(* Inputs *)

\* Starting paths handed to validate_with_context; validate() uses the empty one.
Contexts == {ValidationContext_new, <<Struct("Component", "licenses")>>}

\* raw strings a caller or a wire reader puts into the leaves of a document
SampleStrings == {<<"a">>, <<"a", TAB>>}
SampleIds == {<<"MIT">>, <<"Apache=2.0">>}
SampleExpressions == {<<"MIT", OR, "Apache-2.0">>, <<"MIT", OR>>}
SampleLaxExpressions == {<<"MIT", SLASH, "Apache-2.0">>, <<"MIT", SLASH>>}
PropertyNames == {"name", "other name"}

IdStrings ==
    {<<"MIT">>, <<"Apache-2.0">>, <<"Apache=2.0">>, <<"MIT", OR, "Apache-2.0">>,
     <<"mit">>, <<"Apache 2.0">>, <<"GNU General Public License v3">>}
DateStrings == {"1970-01-01T00:00:00Z", "1969-06-28T01:20:00.00-04:00", "invalid date"}
ExprStrings == UNION {[1..n -> ExprFragments] : n \in 0..MaxExprLen}

Optional(S) == {None} \cup {Some(x) : x \in S}

\* values written as struct / enum literals, as a wire reader or a test does
RawProperties ==
    {Property(n, NormalizedString_new_unchecked(s)) : n \in PropertyNames, s \in SampleStrings}
RawAdvisories ==
    {Advisory(t, u) : t \in Optional(SampleStrings), u \in Uris}
RawLicenseIdentifiers ==
    {Name(s) : s \in SampleStrings} \cup {SpdxId(i) : i \in SampleIds}
RawLicenses ==
    {License(i, x, u) : i \in RawLicenseIdentifiers,
                        x \in Optional(AttachedTexts), u \in Optional(Uris)}
RawLicenseChoices ==
    {LicenseChoice_License(l) : l \in RawLicenses}
        \cup {LicenseChoice_Expression(e) : e \in SampleExpressions}

\* sample reasons and the outcomes merge is applied to
SampleReasons ==
    {FailureReason(MsgUri, <<Array(0)>>), FailureReason(MsgSpdxExpression, <<Array(1)>>)}
Outcomes ==
    {Passed} \cup {Failed(rs) : rs \in UNION {[1..n -> SampleReasons] : n \in 1..MaxReasons}}

Node(kind, v) == [kind |-> kind, v |-> v]

SequenceKinds == {"Properties", "Advisories", "Licenses"}
LeafKinds == {"NormalizedString", "SpdxIdentifier", "SpdxExpression", "DateTime"}

\* number of constrained leaf values an element of a sequence holds
LeavesOfElement(kind, e) ==
    IF kind = "Properties" THEN 1
    ELSE IF kind = "Advisories" THEN 1 + Len(e.title)
    ELSE IF e.variant = "Expression" THEN 1
    ELSE 1 + Len(e.license.text) + Len(e.license.url)

RECURSIVE LeavesOf(_, _)
LeavesOf(kind, s) ==
    IF Len(s) = 0 THEN 0 ELSE LeavesOfElement(kind, Head(s)) + LeavesOf(kind, Tail(s))

\* Validate::validate_with_context, dispatched on the type of the value
validate_with_context(n, context_) ==
    CASE n.kind = "NormalizedString" -> NormalizedString_validate_with_context(n.v, context_)
      [] n.kind = "SpdxIdentifier" -> SpdxIdentifier_validate_with_context(n.v, context_)
      [] n.kind = "SpdxExpression" -> SpdxExpression_validate_with_context(n.v, context_)
      [] n.kind = "DateTime" -> DateTime_validate_with_context(n.v, context_)
      [] n.kind = "Properties" -> Properties_validate_with_context(n.v, context_)
      [] n.kind = "Advisories" -> Advisories_validate_with_context(n.v, context_)
      [] n.kind = "Licenses" -> Licenses_validate_with_context(n.v, context_)

\* ToString::to_string, dispatched on the type of the value
to_string(n) ==
    CASE n.kind = "SpdxIdentifier" -> SpdxIdentifier_to_string(n.v)
      [] n.kind = "SpdxExpression" -> SpdxExpression_to_string(n.v)
      [] n.kind = "DateTime" -> DateTime_to_string(n.v)

-----------------------------------------------------------------------------
(* Initial states: a raw string about to be given to a constructor, an     *)
(* empty sequence about to be filled, or three outcomes about to be merged *)

InitWith(kind, v) ==
    /\ op = "init"
    /\ input = v
    /\ node = Node(kind, v)
    /\ context = ValidationContext_new
    /\ result = NoResult
    /\ error = ""
    /\ checked = TRUE

Init ==
    \/ \E s \in Strings : InitWith("chars", s)
    \/ \E s \in IdStrings : InitWith("id string", s)
    \/ \E s \in ExprStrings : InitWith("expression string", s)
    \/ \E s \in DateStrings : InitWith("date string", s)
    \/ \E k \in SequenceKinds : InitWith(k, <<>>)
    \/ \E a \in Outcomes, b \in Outcomes, c \in Outcomes : InitWith("results", <<a, b, c>>)

-----------------------------------------------------------------------------
(* Constructors of the leaf types *)

\* a checked constructor returned r
Constructed(name, kind, r) ==
    /\ op' = name
    /\ IF r.ok
       THEN node' = Node(kind, r.v) /\ error' = ""
       ELSE node' = node /\ error' = r.err
    /\ UNCHANGED <<input, context, result, checked>>

\* a tuple-struct literal or new_unchecked wrapped the input as it is
Wrapped(name, kind) ==
    /\ op' = name
    /\ node' = Node(kind, input)
    /\ checked' = FALSE
    /\ UNCHANGED <<input, context, result, error>>

\* NormalizedString::new(&input)
New ==
    /\ op = "init" /\ node.kind = "chars"
    /\ op' = "NormalizedString::new"
    /\ node' = Node("NormalizedString", NormalizedString_new(input))
    /\ UNCHANGED <<input, context, result, error, checked>>

\* NormalizedString::new_unchecked(input)
NewUnchecked ==
    /\ op = "init" /\ node.kind = "chars"
    /\ op' = "NormalizedString::new_unchecked"
    /\ node' = Node("NormalizedString", NormalizedString_new_unchecked(input))
    /\ checked' = FALSE
    /\ UNCHANGED <<input, context, result, error>>

\* SpdxIdentifier::try_from(input)
SpdxIdentifierTryFrom ==
    /\ op = "init" /\ node.kind = "id string"
    /\ Constructed("SpdxIdentifier::try_from", "SpdxIdentifier", SpdxIdentifier_try_from(input))

\* SpdxIdentifier(input)
SpdxIdentifierLiteral ==
    /\ op = "init" /\ node.kind = "id string"
    /\ Wrapped("SpdxIdentifier", "SpdxIdentifier")

\* SpdxIdentifier::imprecise(input)
SpdxIdentifierImprecise ==
    /\ op = "init" /\ node.kind = "id string"
    /\ Constructed("SpdxIdentifier::imprecise", "SpdxIdentifier", SpdxIdentifier_imprecise(input))

\* SpdxExpression::try_from(input)
SpdxExpressionTryFrom ==
    /\ op = "init" /\ node.kind = "expression string"
    /\ Constructed("SpdxExpression::try_from", "SpdxExpression", SpdxExpression_try_from(input))

\* SpdxExpression::parse_lax(input)
SpdxExpressionParseLax ==
    /\ op = "init" /\ node.kind = "expression string"
    /\ Constructed("SpdxExpression::parse_lax", "SpdxExpression", parse_lax(input))

\* SpdxExpression(input)
SpdxExpressionLiteral ==
    /\ op = "init" /\ node.kind = "expression string"
    /\ Wrapped("SpdxExpression", "SpdxExpression")

\* DateTime::try_from(input)
DateTimeTryFrom ==
    /\ op = "init" /\ node.kind = "date string"
    /\ Constructed("DateTime::try_from", "DateTime", DateTime_try_from(input))

\* DateTime(input)
DateTimeLiteral ==
    /\ op = "init" /\ node.kind = "date string"
    /\ Wrapped("DateTime", "DateTime")

-----------------------------------------------------------------------------
(* Filling the Vec of a sequence type, one element per step *)

Building(kind) ==
    /\ node.kind = kind
    /\ result = NoResult
    /\ error = ""

\* self.0.push(e), e made by the constructor `name`
Push(name, e, by_checked_constructor) ==
    /\ LeavesOf(node.kind, node.v) + LeavesOfElement(node.kind, e) <= MaxLeaves
    /\ op' = name
    /\ node' = Node(node.kind, Append(node.v, e))
    /\ checked' = (checked /\ by_checked_constructor)
    /\ UNCHANGED <<input, context, result, error>>

\* a checked constructor failed: no value, nothing pushed
Rejected(name, r) ==
    /\ op' = name
    /\ error' = r.err
    /\ UNCHANGED <<input, node, context, result, checked>>

\* LicenseChoice::License(r?) / LicenseChoice::Expression(r?), pushed when r is Ok
PushOrReject(name, r, variant) ==
    IF r.ok
    THEN Push(name,
              IF variant = "License"
              THEN LicenseChoice_License(r.v)
              ELSE LicenseChoice_Expression(r.v),
              TRUE)
    ELSE Rejected(name, r)

\* Property { name, value: NormalizedString(s) }
PushProperty ==
    /\ Building("Properties")
    /\ \E p \in RawProperties : Push("Property", p, FALSE)

\* Property::new(name, value)
PushPropertyNew ==
    /\ Building("Properties")
    /\ \E n \in PropertyNames, s \in SampleStrings :
        Push("Property::new", Property_new(n, s), TRUE)

\* Advisory { title, url }
PushAdvisory ==
    /\ Building("Advisories")
    /\ \E a \in RawAdvisories : Push("Advisory", a, FALSE)

\* LicenseChoice::License(License { .. }) / LicenseChoice::Expression(SpdxExpression(..))
PushLicenseChoice ==
    /\ Building("Licenses")
    /\ \E c \in RawLicenseChoices : Push("LicenseChoice", c, FALSE)

\* LicenseChoice::License(License::named_license(s))
PushNamedLicense ==
    /\ Building("Licenses")
    /\ \E s \in SampleStrings :
        Push("License::named_license", LicenseChoice_License(named_license(s)), TRUE)

\* LicenseChoice::License(License::license_id(s)?)
PushLicenseId ==
    /\ Building("Licenses")
    /\ \E s \in SampleIds :
        PushOrReject("License::license_id", License_license_id(s), "License")

\* LicenseChoice::Expression(SpdxExpression::try_from(e)?)
PushExpressionTryFrom ==
    /\ Building("Licenses")
    /\ \E e \in SampleExpressions :
        PushOrReject("SpdxExpression::try_from", SpdxExpression_try_from(e), "Expression")

\* LicenseChoice::Expression(SpdxExpression::parse_lax(e)?)
PushExpressionParseLax ==
    /\ Building("Licenses")
    /\ \E e \in SampleLaxExpressions :
        PushOrReject("SpdxExpression::parse_lax", parse_lax(e), "Expression")

-----------------------------------------------------------------------------
(* Conversions between the canonical Properties and their v1.3 wire form *)

\* specs::v1_3::property::Properties::from(node): the canonical value is the
\* argument, the wire value the result
IntoV1_3 ==
    /\ Building("Properties")
    /\ op' = "v1_3::Properties::from"
    /\ input' = node.v
    /\ node' = Node("v1_3::Properties", v1_3_Properties_from(node.v))
    /\ UNCHANGED <<context, result, error, checked>>

\* models::property::Properties::from(node): the wire value becomes canonical
\* again, every value wrapped unchecked
FromV1_3 ==
    /\ node.kind = "v1_3::Properties"
    /\ op' = "models::property::Properties::from"
    /\ node' = Node("Properties", Properties_from_v1_3(node.v))
    /\ checked' = FALSE
    /\ UNCHANGED <<input, context, result, error>>

\* node.write_xml_element(&mut writer) on a fresh writer whose underlying
\* io::Write fails at one of the calls the emission can make, or at none
WriteXmlElement ==
    /\ node.kind = "v1_3::Properties"
    /\ result = NoResult
    /\ \E fail_at \in 0..(2 + 3 * Len(node.v)) :
        LET r == Properties_write_xml_element(node.v, EventWriter(fail_at))
        IN  result' = [tag |-> "Written",
                       writer |-> r.writer,
                       ret |-> IF r.ok THEN Ok(<<>>) ELSE Err(r.err)]
    /\ op' = "write_xml_element"
    /\ UNCHANGED <<input, node, context, error, checked>>

-----------------------------------------------------------------------------
(* Validation and merging *)

\* node.validate_with_context(c); node.validate() is the case c = default()
Validate ==
    /\ node.kind \in LeafKinds \cup SequenceKinds
    /\ result = NoResult /\ error = ""
    /\ \E c \in Contexts :
        /\ context' = c
        /\ result' = validate_with_context(node, c)
    /\ op' = "validate"
    /\ UNCHANGED <<input, node, error, checked>>

\* node.to_string() of a leaf a constructor has just given; op keeps the name
\* of that constructor
ToString ==
    /\ node.kind \in {"SpdxIdentifier", "SpdxExpression", "DateTime"}
    /\ result = NoResult /\ error = ""
    /\ result' = [tag |-> "String", string |-> to_string(node)]
    /\ UNCHANGED <<op, input, node, context, error, checked>>

\* the merges of three outcomes a, b, c in both groupings, with the identity
\* on either side, and as the left fold every validate_with_context ends with
Merge ==
    /\ op = "init" /\ node.kind = "results"
    /\ LET a == node.v[1]
           b == node.v[2]
           c == node.v[3]
       IN  result' = [tag |-> "Merged",
                      ab |-> merge(a, b),
                      ab_c |-> merge(merge(a, b), c),
                      a_bc |-> merge(a, merge(b, c)),
                      default_a |-> merge(ValidationResult_default, a),
                      a_default |-> merge(a, ValidationResult_default),
                      fold |-> fold_results(node.v)]
    /\ op' = "merge"
    /\ UNCHANGED <<input, node, context, error, checked>>

Next ==
    \/ New
    \/ NewUnchecked
    \/ SpdxIdentifierTryFrom
    \/ SpdxIdentifierLiteral
    \/ SpdxIdentifierImprecise
    \/ SpdxExpressionTryFrom
    \/ SpdxExpressionParseLax
    \/ SpdxExpressionLiteral
    \/ DateTimeTryFrom
    \/ DateTimeLiteral
    \/ PushProperty
    \/ PushPropertyNew
    \/ PushAdvisory
    \/ PushLicenseChoice
    \/ PushNamedLicense
    \/ PushLicenseId
    \/ PushExpressionTryFrom
    \/ PushExpressionParseLax
    \/ IntoV1_3
    \/ FromV1_3
    \/ WriteXmlElement
    \/ Validate
    \/ ToString
    \/ Merge

Spec == Init /\ [][Next]_vars

-----------------------------------------------------------------------------
(* What a document holds, stated without running the validators *)

Invalid == {CR, LF, TAB}

IsBadString(s) == \E i \in 1..Len(s) : s[i] \in Invalid
IsBadUri(u) == u # GoodUri
IsBadText(x) == x # GoodText
IsBadId(id) == ~(Len(id) = 1 /\ id[1] \in LicenseCatalog)
IsBadExpression(e) == ~Expression_parse(e)
IsBadDate(d) == ~OffsetDateTime_parse(d)

When(violates, path) == IF violates THEN {path} ELSE {}

\* the paths, below `base`, of the violating leaves of one element of a sequence
BadPathsOfElement(kind, e, base) ==
    CASE kind = "Properties" ->
            When(IsBadString(e.value), base \o <<Struct("Property", "value")>>)
      [] kind = "Advisories" ->
            When(e.title # None /\ IsBadString(e.title[1]),
                 base \o <<Struct("Advisory", "title")>>)
            \cup When(IsBadUri(e.url), base \o <<Struct("Advisory", "url")>>)
      [] kind = "Licenses" /\ e.variant = "Expression" ->
            When(IsBadExpression(e.expression), base \o <<EnumVariant("Expression")>>)
      [] kind = "Licenses" /\ e.variant = "License" ->
            LET l == e.license
                b == base \o <<EnumVariant("License")>>
                id == l.license_identifier
            IN  When(IF id.variant = "Name" THEN IsBadString(id.v) ELSE IsBadId(id.v),
                     b \o <<Struct("License", "license_identifier"), EnumVariant(id.variant)>>)
                \cup When(l.text # None /\ IsBadText(l.text[1]),
                          b \o <<Struct("License", "text")>>)
                \cup When(l.url # None /\ IsBadUri(l.url[1]),
                          b \o <<Struct("License", "url")>>)

\* the paths of the violating leaves of a value validated from the path `base`
BadPaths(n, base) ==
    CASE n.kind = "NormalizedString" -> IF IsBadString(n.v) THEN {base} ELSE {}
      [] n.kind = "SpdxIdentifier" -> IF IsBadId(n.v) THEN {base} ELSE {}
      [] n.kind = "SpdxExpression" -> IF IsBadExpression(n.v) THEN {base} ELSE {}
      [] n.kind = "DateTime" -> IF IsBadDate(n.v) THEN {base} ELSE {}
      [] n.kind \in SequenceKinds ->
            UNION {BadPathsOfElement(n.kind, n.v[i], base \o <<Array(i - 1)>>) :
                       i \in 1..Len(n.v)}

Validated == op = "validate"
ValidatedSequence == Validated /\ node.kind \in SequenceKinds

\* the outcome of validating element i (one-based) of the sequence in node on
\* its own, from the path the sequence hands to it
ChildResult(i) ==
    LET c == context \o <<Array(i - 1)>>
    IN  CASE node.kind = "Properties" -> Property_validate_with_context(node.v[i], c)
          [] node.kind = "Advisories" -> Advisory_validate_with_context(node.v[i], c)
          [] node.kind = "Licenses" -> LicenseChoice_validate_with_context(node.v[i], c)

RECURSIVE ChildReasonsFrom(_)
ChildReasonsFrom(i) ==
    IF i > Len(node.v) THEN <<>> ELSE ReasonsOf(ChildResult(i)) \o ChildReasonsFrom(i + 1)

-----------------------------------------------------------------------------
(* Properties of merge and of the traversals *)

\* C1: merge is associative and Passed is a two-sided identity: (a merge b)
\* merge c = a merge (b merge c), Passed merge a = a, a merge Passed = a; so the
\* left fold from ValidationResult::default() that ends every
\* validate_with_context equals either grouping of the merges.
C1_MergeAssociativeWithIdentity ==
    op = "merge" =>
        /\ result.ab_c = result.a_bc
        /\ result.default_a = node.v[1]
        /\ result.a_default = node.v[1]
        /\ result.fold = result.ab_c
        /\ result.fold = result.a_bc

C1_Witness ==
    /\ op = "merge"
    /\ \A i \in 1..3 : node.v[i].tag = "Failed"
    /\ node.v[1] # node.v[2] /\ node.v[2] # node.v[3]
    /\ result.fold.tag = "Failed"
    /\ Len(result.fold.reasons) >= 3

\* C2: merging two failing outcomes gives Failed with the left operand's reasons
\* followed by the right operand's, none dropped, duplicated or reordered; so
\* the reasons of a validated sequence are the reasons of its elements, one
\* element after the other (failing elements 1 and 2 give exactly [reason of
\* element 1, reason of element 2]).
C2_MergeConcatenates ==
    /\ (op = "merge" /\ node.v[1].tag = "Failed" /\ node.v[2].tag = "Failed") =>
            result.ab = Failed(node.v[1].reasons \o node.v[2].reasons)
    /\ ValidatedSequence => ReasonsOf(result) = ChildReasonsFrom(1)

C2_Witness ==
    /\ Validated /\ node.kind = "Licenses" /\ context = ValidationContext_new
    /\ node.v = <<LicenseChoice_License(License(Name(<<"a">>), None, None)),
                  LicenseChoice_License(License(Name(<<"a", TAB>>), None, None)),
                  LicenseChoice_License(License(SpdxId(<<"Apache=2.0">>), None, None))>>
    /\ result = Failed(<<
            FailureReason(MsgNormalizedString,
                <<Array(1), EnumVariant("License"),
                  Struct("License", "license_identifier"), EnumVariant("Name")>>),
            FailureReason(MsgSpdxIdentifier,
                <<Array(2), EnumVariant("License"),
                  Struct("License", "license_identifier"), EnumVariant("SpdxId")>>)>>)

ReasonPaths == {ReasonsOf(result)[i].context : i \in 1..Len(ReasonsOf(result))}

\* C3: validation never short-circuits: the outcome of validating a sequence
\* holds exactly one reason for each violating leaf of the tree, so there are
\* as many reasons as violating leaves, also when an earlier field or element
\* has failed already.
C3_OneReasonPerBadLeaf ==
    ValidatedSequence =>
        /\ ReasonPaths = BadPaths(node, context)
        /\ Len(ReasonsOf(result)) = Cardinality(BadPaths(node, context))

C3_Witness ==
    /\ Validated /\ node.kind = "Advisories" /\ context = ValidationContext_new
    /\ node.v = <<Advisory(Some(<<"a", TAB>>), BadUri)>>
    /\ result = Failed(<<
            FailureReason(MsgNormalizedString, <<Array(0), Struct("Advisory", "title")>>),
            FailureReason(MsgUri, <<Array(0), Struct("Advisory", "url")>>)>>)

BadLeavesOfChild(i) ==
    Cardinality(BadPathsOfElement(node.kind, node.v[i], <<>>))

OnlyChildFails(i) ==
    /\ BadLeavesOfChild(i) = 1
    /\ \A j \in 1..Len(node.v) : j # i => BadLeavesOfChild(j) = 0

\* C4: in a sequence of N children, if child i (zero-based) and only child i has
\* one violation, the outcome is Failed with exactly one reason, and its path
\* starts, right after the path the sequence was validated from (the empty path
\* for validate()), with the Array component holding i.
C4_OnlyFailingChildIsIndexed ==
    ValidatedSequence =>
        \A i \in 1..Len(node.v) :
            OnlyChildFails(i) =>
                /\ result.tag = "Failed"
                /\ Len(result.reasons) = 1
                /\ Len(result.reasons[1].context) > Len(context)
                /\ SubSeq(result.reasons[1].context, 1, Len(context) + 1)
                       = context \o <<Array(i - 1)>>

C4_Witness ==
    /\ Validated /\ node.kind = "Properties" /\ context = ValidationContext_new
    /\ Len(node.v) = 3 /\ OnlyChildFails(3)
    /\ result = Failed(<<FailureReason(MsgNormalizedString,
                                       <<Array(2), Struct("Property", "value")>>)>>)

\* the rank of a field in the order its record validates its fields
FieldRank(c) ==
    CASE c.type # "Struct" -> 0
      [] c.type = "Struct" /\ c.struct_name = "Advisory" ->
            (IF c.field_name = "title" THEN 0 ELSE 1)
      [] c.type = "Struct" /\ c.struct_name = "License" ->
            (IF c.field_name = "license_identifier" THEN 0
             ELSE IF c.field_name = "text" THEN 1 ELSE 2)
      [] OTHER -> 0

\* the first record field on a path below the element, if any
RECURSIVE FirstFieldRank(_)
FirstFieldRank(path) ==
    IF Len(path) = 0 THEN 0
    ELSE IF Head(path).type = "Struct" THEN FieldRank(Head(path))
    ELSE FirstFieldRank(Tail(path))

\* where a reason lies in the document: the index of its element, then the
\* rank of its field
ElementIndexOf(r) == r.context[Len(context) + 1].index
FieldRankOf(r) == FirstFieldRank(SubSeq(r.context, Len(context) + 2, Len(r.context)))

Precedes(r1, r2) ==
    \/ ElementIndexOf(r1) < ElementIndexOf(r2)
    \/ ElementIndexOf(r1) = ElementIndexOf(r2) /\ FieldRankOf(r1) < FieldRankOf(r2)

\* C5: the reason list is in document order: reasons of element i precede those
\* of element j whenever i < j, and within a record they follow the field order
\* (Advisory: title, url; License: license_identifier, text, url); with one
\* reason per violating leaf this is the depth-first, pre-order traversal.
C5_ReasonsInDocumentOrder ==
    ValidatedSequence =>
        /\ \A k \in 1..(Len(ReasonsOf(result)) - 1) :
                Precedes(result.reasons[k], result.reasons[k + 1])
        /\ ReasonPaths = BadPaths(node, context)

C5_Witness ==
    /\ Validated /\ node.kind = "Licenses" /\ context = ValidationContext_new
    /\ node.v = <<LicenseChoice_License(
                      License(SpdxId(<<"Apache=2.0">>), Some(BadText), Some(BadUri))),
                  LicenseChoice_Expression(<<"MIT", OR>>)>>
    /\ Len(ReasonsOf(result)) = 4
    /\ result.reasons[1].message = MsgSpdxIdentifier
    /\ result.reasons[2].message = MsgAttachedText
    /\ result.reasons[3].message = MsgUri
    /\ result.reasons[4] = FailureReason(MsgSpdxExpression,
                                         <<Array(1), EnumVariant("Expression")>>)

\* C6: every outcome of a validation, also of an empty sequence, is either
\* Passed or Failed with a non-empty reason list, and it is Passed if and only
\* if no leaf of the value violates its constraint.
C6_PassedOrNonEmptyFailed ==
    Validated =>
        /\ \/ result = Passed
           \/ result.tag = "Failed" /\ Len(result.reasons) >= 1
        /\ (result = Passed) <=> (BadPaths(node, context) = {})

C6_Witness ==
    /\ Validated /\ node.kind = "Licenses"
    /\ node.v = <<>>
    /\ result = Passed

\* C10: a value built through checked constructors only validates as Passed,
\* whatever it is composed into: NormalizedString::new(s), Properties of
\* Property::new(n, s), Licenses of License::named_license(s), and every Ok of
\* SpdxIdentifier::try_from, SpdxExpression::try_from, SpdxExpression::parse_lax,
\* DateTime::try_from and License::license_id.
C10_CheckedValuesPass == (Validated /\ checked) => result = Passed

C10_Witness ==
    /\ Validated /\ checked /\ node.kind = "Licenses"
    /\ node.v = <<LicenseChoice_License(named_license(<<"a", TAB>>)),
                  LicenseChoice_License(License(SpdxId(<<"MIT">>), None, None)),
                  LicenseChoice_Expression(<<"MIT", OR, "Apache-2.0">>)>>
    /\ result = Passed

-----------------------------------------------------------------------------
(* Properties of NormalizedString::new *)

AfterNew == op = "NormalizedString::new"

\* C7: for every input string s, the string stored by NormalizedString::new(s)
\* contains no carriage return, no line feed and no tab.
C7_NewHasNoInvalidChar ==
    AfterNew => \A i \in 1..Len(node.v) : node.v[i] \notin Invalid

C7_Witness ==
    /\ AfterNew
    /\ contains2(input, CR, LF) /\ contains(input, TAB)
    /\ \A i \in 1..Len(node.v) : node.v[i] \notin Invalid

\* maximal runs of CR, LF, TAB each collapsed to ONE space
RECURSIVE CollapseRuns(_)
CollapseRuns(s) ==
    IF Len(s) = 0 THEN <<>>
    ELSE IF s[1] \in Invalid
         THEN IF Len(s) >= 2 /\ s[2] \in Invalid
              THEN CollapseRuns(Tail(s))
              ELSE <<SP>> \o CollapseRuns(Tail(s))
         ELSE <<s[1]>> \o CollapseRuns(Tail(s))

\* C8 as stated: every maximal run of consecutive CR, LF or TAB characters
\* ("\n\n", "\t\t", "\r\n") collapses to exactly one space.
C8_EveryRunIsOneSpace == AfterNew => node.v = CollapseRuns(input)

\* length of the longest prefix of s made of CR, LF, TAB only
RECURSIVE RunLen(_)
RunLen(s) == IF Len(s) = 0 \/ s[1] \notin Invalid THEN 0 ELSE 1 + RunLen(Tail(s))

\* number of CR immediately followed by LF in s
PairCount(s) == Cardinality({i \in 1..(Len(s) - 1) : s[i] = CR /\ s[i + 1] = LF})

Spaces(n) == [i \in 1..n |-> SP]

\* each maximal run of k invalid characters holding m CRLF pairs becomes
\* k - m spaces; everything else is kept
RECURSIVE RunImage(_)
RunImage(s) ==
    IF Len(s) = 0 THEN <<>>
    ELSE IF s[1] \in Invalid
         THEN LET k == RunLen(s)
                  run == SubSeq(s, 1, k)
              IN  Spaces(k - PairCount(run)) \o RunImage(SubSeq(s, k + 1, Len(s)))
         ELSE <<s[1]>> \o RunImage(Tail(s))

\* C8 (amended): a CRLF pair becomes one space (not two) and every other CR, LF
\* or TAB becomes one space each, so a maximal run of k such characters that
\* holds m CRLF pairs becomes k - m spaces.
C8_RunBecomesOneSpacePerUnit == AfterNew => node.v = RunImage(input)

C8_Witness ==
    /\ AfterNew
    /\ input = <<CR, LF, LF>>
    /\ node.v = <<SP, SP>>

\* one left-to-right pass: a CR followed by LF gives one space and skips both,
\* any other CR, LF or TAB gives one space, any other character is copied
RECURSIVE Reference(_)
Reference(s) ==
    IF Len(s) = 0 THEN <<>>
    ELSE IF Len(s) >= 2 /\ s[1] = CR /\ s[2] = LF
         THEN <<SP>> \o Reference(SubSeq(s, 3, Len(s)))
         ELSE IF s[1] \in Invalid
              THEN <<SP>> \o Reference(Tail(s))
              ELSE <<s[1]>> \o Reference(Tail(s))

\* C9: NormalizedString::new always succeeds and equals the reference "CRLF to
\* one space, then each remaining CR, LF, TAB to one space, all else verbatim";
\* its length is len(s) minus the number of CRLF pairs and new(s) = s when s
\* holds no CR, LF or TAB.
C9_NewEqualsReference ==
    /\ (op = "init" /\ node.kind = "chars") => ENABLED New
    /\ AfterNew =>
        /\ error = ""
        /\ node.v = Reference(input)
        /\ Len(node.v) = Len(input) - PairCount(input)
        /\ ((\A i \in 1..Len(input) : input[i] \notin Invalid) => node.v = input)

C9_Witness ==
    /\ AfterNew
    /\ input = <<"a", CR, LF>>
    /\ node.v = <<"a", SP>>

-----------------------------------------------------------------------------
(* Properties of the leaf validators *)

\* C11: a NormalizedString holding any raw string s, validated with the path
\* p, gives Failed with exactly one reason, which carries the "contains
\* invalid characters" message and exactly the path p, if and only if s
\* contains a carriage return, a line feed or a tab; otherwise it gives Passed.
C11_InvalidCharIffOneReasonAtPath ==
    (Validated /\ node.kind = "NormalizedString") =>
        IF \E i \in 1..Len(node.v) : node.v[i] \in Invalid
        THEN result = Failed(<<FailureReason(MsgNormalizedString, context)>>)
        ELSE result = Passed

C11_Witness ==
    /\ Validated /\ node.kind = "NormalizedString" /\ ~checked
    /\ node.v = <<"a", LF, "a">>
    /\ context = <<Struct("Component", "licenses")>>
    /\ result = Failed(<<FailureReason(MsgNormalizedString, context)>>)

-----------------------------------------------------------------------------
(* Properties of the checked constructors *)

Stringified == result.tag = "String"

\* C12: for every string s that DateTime::try_from accepts,
\* DateTime::try_from(s).to_string() is s, character for character; the values
\* of SpdxIdentifier::try_from and SpdxExpression::try_from give back their
\* input in the same way.
C12_TryFromToStringIsInput ==
    (/\ Stringified
     /\ op \in {"DateTime::try_from", "SpdxIdentifier::try_from",
                "SpdxExpression::try_from"})
        => result.string = input

C12_Witness ==
    /\ Stringified /\ op = "DateTime::try_from"
    /\ input = "1969-06-28T01:20:00.00-04:00"
    /\ result.string = "1969-06-28T01:20:00.00-04:00"

\* C13: the validator and the checked constructor agree on every raw value:
\* DateTime(s) validates as Passed exactly when DateTime::try_from(s) succeeds,
\* SpdxIdentifier(s) validates as Passed exactly when SpdxIdentifier::try_from(s)
\* succeeds (an exact catalog match: the raw "MIT OR Apache-2.0" and
\* "Apache=2.0" fail), and a failing validation is one reason at the path
\* that was passed in.
C13_ValidatorAgreesWithTryFrom ==
    /\ (Validated /\ node.kind = "DateTime") =>
            IF DateTime_try_from(node.v).ok
            THEN result = Passed
            ELSE result = Failed(<<FailureReason(MsgDateTime, context)>>)
    /\ (Validated /\ node.kind = "SpdxIdentifier") =>
            /\ IF SpdxIdentifier_try_from(node.v).ok
               THEN result = Passed
               ELSE result = Failed(<<FailureReason(MsgSpdxIdentifier, context)>>)
            /\ node.v \in {<<"MIT", OR, "Apache-2.0">>, <<"Apache=2.0">>}
                   => result # Passed

C13_Witness ==
    /\ Validated /\ node.kind = "SpdxIdentifier" /\ ~checked
    /\ node.v = <<"MIT", OR, "Apache-2.0">>
    /\ context = <<Struct("Component", "licenses")>>
    /\ result = Failed(<<FailureReason(MsgSpdxIdentifier, context)>>)

\* the string with every slash replaced by " OR ", fragment by fragment
SlashesAsOr(value) == [i \in 1..Len(value) |-> IF value[i] = SLASH THEN OR ELSE value[i]]

\* parse_lax was applied to the input string on its own
AfterParseLax == op = "SpdxExpression::parse_lax" /\ node.kind \notin SequenceKinds

\* C14: for every string s, SpdxExpression::parse_lax(s) succeeds exactly
\* when the strict parse of s with every "/" replaced by " OR " succeeds, and
\* the value it then gives stores exactly that replaced string; nothing else
\* about s decides the outcome.
C14_ParseLaxIsStrictOnReplaced ==
    AfterParseLax =>
        /\ (error = "") <=> SpdxExpression_try_from(SlashesAsOr(input)).ok
        /\ error = "" =>
                /\ node.kind = "SpdxExpression"
                /\ SpdxExpression_to_string(node.v) = SlashesAsOr(input)

C14_Witness ==
    /\ AfterParseLax /\ error = ""
    /\ input = <<"MIT", SLASH, "Apache-2.0">>
    /\ node = Node("SpdxExpression", <<"MIT", OR, "Apache-2.0">>)

\* C15: the lenient acceptance is construction-time only. Validation of an
\* SpdxExpression depends on the stored string alone and is Passed exactly
\* when that string satisfies the strict grammar, whichever constructor built
\* the value: parse_lax("MIT/Apache-2.0") is the value
\* try_from("MIT OR Apache-2.0") gives and validates as Passed, while a raw
\* SpdxExpression that still holds a "/" is judged by the strict grammar and
\* fails.
C15_ValidationIsStrictOnStoredString ==
    /\ (Validated /\ node.kind = "SpdxExpression") =>
            /\ IF Expression_parse(node.v)
               THEN result = Passed
               ELSE result = Failed(<<FailureReason(MsgSpdxExpression, context)>>)
            /\ (\E i \in 1..Len(node.v) : node.v[i] = SLASH) => result # Passed
    /\ (AfterParseLax /\ input = <<"MIT", SLASH, "Apache-2.0">>) =>
            /\ error = ""
            /\ node = Node("SpdxExpression",
                           SpdxExpression_try_from(<<"MIT", OR, "Apache-2.0">>).v)

C15_Witness ==
    /\ Validated /\ node.kind = "SpdxExpression" /\ ~checked
    /\ node.v = <<"MIT", SLASH, "Apache-2.0">>
    /\ result = Failed(<<FailureReason(MsgSpdxExpression, context)>>)

AfterImprecise == op = "SpdxIdentifier::imprecise"

\* C16: SpdxIdentifier::imprecise(s) gives, when a catalog entry matches
\* loosely, the catalog's own spelling of it ("Apache 2.0" gives "Apache-2.0",
\* "mit" gives "MIT"), which is the string passed in only if that already is
\* the catalog's spelling, so the value always passes the exact-match
\* validation; when nothing matches it fails with
\* InvalidImpreciseSpdxIdentifier and gives no value.
C16_ImpreciseGivesCanonicalName ==
    /\ AfterImprecise =>
            IF error = ""
            THEN /\ node.kind = "SpdxIdentifier"
                 /\ license_id(node.v)
                 /\ (node.v = input) <=> license_id(input)
            ELSE /\ error = "InvalidImpreciseSpdxIdentifier"
                 /\ node = Node("id string", input)
    /\ (AfterImprecise /\ input = <<"Apache 2.0">>) => node.v = <<"Apache-2.0">>
    /\ (AfterImprecise /\ input = <<"mit">>) => node.v = <<"MIT">>
    /\ (AfterImprecise /\ input = <<"GNU General Public License v3">>) => error # ""
    /\ (Validated /\ node.kind = "SpdxIdentifier" /\ checked) => result = Passed

C16_Witness ==
    /\ Validated /\ checked
    /\ input = <<"Apache 2.0">>
    /\ node = Node("SpdxIdentifier", <<"Apache-2.0">>)
    /\ result = Passed

\* the one error variant each checked constructor returns
OwnError(constructor) ==
    CASE constructor = "SpdxExpression::try_from" -> "InvalidSpdxExpression"
      [] constructor = "SpdxExpression::parse_lax" -> "InvalidLaxSpdxExpression"
      [] constructor \in {"SpdxIdentifier::try_from", "License::license_id"}
            -> "InvalidSpdxIdentifier"
      [] constructor = "SpdxIdentifier::imprecise" -> "InvalidImpreciseSpdxIdentifier"
      [] constructor = "DateTime::try_from" -> "InvalidDateTime"

CheckedConstructors ==
    {"SpdxExpression::try_from", "SpdxExpression::parse_lax", "SpdxIdentifier::try_from",
     "License::license_id", "SpdxIdentifier::imprecise", "DateTime::try_from"}

\* C17: each checked constructor fails only with its own error variant and
\* then gives no value: SpdxExpression::try_from with InvalidSpdxExpression,
\* SpdxExpression::parse_lax with InvalidLaxSpdxExpression (when the lax parse
\* of the input fails and also when the converted string fails the strict
\* parse), SpdxIdentifier::try_from with InvalidSpdxIdentifier,
\* SpdxIdentifier::imprecise with InvalidImpreciseSpdxIdentifier, and
\* DateTime::try_from with InvalidDateTime.
C17_OwnTypedErrorAndNoValue ==
    /\ op \in CheckedConstructors =>
            /\ error \in {"", OwnError(op)}
            /\ node.kind \notin SequenceKinds =>
                    IF error = ""
                    THEN node.kind \in LeafKinds
                    ELSE /\ node.kind \in {"id string", "expression string", "date string"}
                         /\ node.v = input
    /\ (AfterParseLax /\ ~Expression_parse_mode_lax(input))
            => error = "InvalidLaxSpdxExpression"
    /\ (AfterParseLax /\ ~Expression_parse(SlashesAsOr(input)))
            => error = "InvalidLaxSpdxExpression"

C17_Witness ==
    /\ AfterParseLax
    /\ input = <<"Apache 2.0", SLASH, "MIT">>
    /\ Expression_parse_mode_lax(input)
    /\ error = "InvalidLaxSpdxExpression"
    /\ node = Node("expression string", input)

-----------------------------------------------------------------------------
(* Properties of the v1.3 wire form of Properties *)

\* the wire value was converted back; input is the canonical value that was
\* converted to the wire form
AfterRoundTrip == op = "models::property::Properties::from"

\* C18: every canonical Properties that validates as Passed, converted to the
\* v1.3 wire Properties and back, is equal to the original: the same number
\* of properties, in the same order, with the same names and values.
C18_RoundTripThroughV1_3 ==
    (/\ AfterRoundTrip
     /\ Properties_validate_with_context(input, ValidationContext_new) = Passed)
        => /\ node.kind = "Properties"
           /\ Len(node.v) = Len(input)
           /\ \A i \in 1..Len(input) :
                /\ node.v[i].name = input[i].name
                /\ node.v[i].value = input[i].value

C18_Witness ==
    /\ AfterRoundTrip
    /\ input = <<Property_new("name", <<"a", TAB>>), Property("other name", <<"a">>)>>
    /\ Properties_validate_with_context(input, ValidationContext_new) = Passed
    /\ node = Node("Properties", input)

\* the step from the wire value to the canonical one keeps every name and
\* stores every value string as it is, and raises no error
FromV1_3KeepsValues ==
    (node.kind = "v1_3::Properties" /\ node'.kind = "Properties") =>
        /\ error' = ""
        /\ Len(node'.v) = Len(node.v)
        /\ \A i \in 1..Len(node.v) :
            /\ node'.v[i].name = node.v[i].name
            /\ node'.v[i].value = node.v[i].value

\* the path of the value of property i (one-based) below the starting path
ValuePath(i) == context \o <<Array(i - 1), Struct("Property", "value")>>

\* one reason per property whose value holds an invalid character, at the
\* path of that value
ReasonsAtValuePaths ==
    LET bad == {i \in 1..Len(node.v) : IsBadString(node.v[i].value)}
        reasons == ReasonsOf(result)
    IN  /\ Len(reasons) = Cardinality(bad)
        /\ \A k \in 1..Len(reasons) : \E i \in bad :
                reasons[k] = FailureReason(MsgNormalizedString, ValuePath(i))
        /\ \A i \in bad : \E k \in 1..Len(reasons) : reasons[k].context = ValuePath(i)

\* C19: the conversion from the wire Properties to the canonical ones is
\* total and neither rejects nor alters invalid content: for every wire value
\* string, with CR, LF or TAB in it or not, it succeeds and stores the string
\* verbatim, not normalized; the invalid value is reported only by the
\* validation that follows, as a reason at the path
\* [Array(i), Struct(Property, value)].
C19_WireValuesKeptThenReported ==
    /\ [][FromV1_3KeepsValues]_vars
    /\ [](node.kind = "v1_3::Properties" => ENABLED FromV1_3)
    /\ []((Validated /\ node.kind = "Properties") => ReasonsAtValuePaths)

C19_Witness ==
    /\ Validated /\ ~checked /\ node.kind = "Properties"
    /\ node.v = <<Property("name", <<"a">>), Property("other name", <<"a", TAB>>)>>
    /\ input = node.v
    /\ context = <<Struct("Component", "licenses")>>
    /\ result = Failed(<<FailureReason(MsgNormalizedString,
                            <<Struct("Component", "licenses"), Array(1),
                              Struct("Property", "value")>>)>>)

-----------------------------------------------------------------------------
(* Properties of the paths handed from a node to its children *)

\* the components a child of an element of a sequence adds to the path of
\* that element, told from the message only that child's validator gives
OwnComponents(kind, message) ==
    CASE kind = "Properties" -> <<Struct("Property", "value")>>
      [] kind = "Advisories" /\ message = MsgNormalizedString ->
            <<Struct("Advisory", "title")>>
      [] kind = "Advisories" /\ message = MsgUri ->
            <<Struct("Advisory", "url")>>
      [] kind = "Licenses" /\ message = MsgSpdxExpression ->
            <<EnumVariant("Expression")>>
      [] kind = "Licenses" /\ message = MsgNormalizedString ->
            <<EnumVariant("License"), Struct("License", "license_identifier"),
              EnumVariant("Name")>>
      [] kind = "Licenses" /\ message = MsgSpdxIdentifier ->
            <<EnumVariant("License"), Struct("License", "license_identifier"),
              EnumVariant("SpdxId")>>
      [] kind = "Licenses" /\ message = MsgAttachedText ->
            <<EnumVariant("License"), Struct("License", "text")>>
      [] kind = "Licenses" /\ message = MsgUri ->
            <<EnumVariant("License"), Struct("License", "url")>>

\* C20: a path extended for one child is never seen by its siblings or by
\* the caller: when a node validates several children from the same path p
\* (the title and url of an Advisory; the license_identifier, text and url of
\* a License; the elements of a sequence), every reported path is p followed
\* by the components of the reporting child alone, whether an earlier sibling
\* was present, absent, valid or failing.
C20_PathsAreParentPlusOwnComponents ==
    ValidatedSequence =>
        \A k \in 1..Len(ReasonsOf(result)) :
            LET reason == ReasonsOf(result)[k]
            IN  \E i \in 1..Len(node.v) :
                    reason.context =
                        context \o <<Array(i - 1)>>
                                \o OwnComponents(node.kind, reason.message)

C20_Witness ==
    /\ ValidatedSequence /\ node.kind = "Advisories"
    /\ context = <<Struct("Component", "licenses")>>
    /\ node.v = <<Advisory(Some(<<"a", TAB>>), BadUri), Advisory(None, BadUri)>>
    /\ result = Failed(<<
            FailureReason(MsgNormalizedString,
                          context \o <<Array(0), Struct("Advisory", "title")>>),
            FailureReason(MsgUri, context \o <<Array(0), Struct("Advisory", "url")>>),
            FailureReason(MsgUri, context \o <<Array(1), Struct("Advisory", "url")>>)>>)

-----------------------------------------------------------------------------
(* Properties of the tagged unions *)

ValidatedLicenses == Validated /\ node.kind = "Licenses"

\* the path of the license_identifier payload of element i (one-based)
IdentifierPath(i) ==
    context \o <<Array(i - 1), EnumVariant("License"),
                 Struct("License", "license_identifier"),
                 EnumVariant(node.v[i].license.license_identifier.variant)>>

\* the payload of a LicenseIdentifier breaks the rule of its own variant
BreaksOwnRule(id) ==
    IF id.variant = "Name" THEN IsBadString(id.v) ELSE IsBadId(id.v)

\* C21: for the tagged unions LicenseChoice (License / Expression) and
\* LicenseIdentifier (SpdxId / Name), validation extends the path with one
\* EnumVariant component that names the active variant and checks the payload
\* of that variant only, by that variant's rule: every reason given under a
\* union carries the name of the active variant at that position of the
\* path, a Name payload is never checked as an SPDX identifier and an SpdxId
\* payload never as a normalized string.
C21_ActiveVariantNamedAndChecked ==
    ValidatedLicenses =>
        LET reasons == ReasonsOf(result)
            n == Len(context)
        IN  /\ \A k \in 1..Len(reasons) :
                LET r == reasons[k]
                    p == r.context
                IN  \E i \in 1..Len(node.v) :
                        /\ Len(p) >= n + 2
                        /\ SubSeq(p, 1, n) = context
                        /\ p[n + 1] = Array(i - 1)
                        /\ p[n + 2] = EnumVariant(node.v[i].variant)
                        /\ IF node.v[i].variant = "Expression"
                           THEN Len(p) = n + 2 /\ r.message = MsgSpdxExpression
                           ELSE /\ Len(p) >= n + 3
                                /\ p[n + 3] = Struct("License", "license_identifier") =>
                                    LET id == node.v[i].license.license_identifier
                                    IN  /\ p = IdentifierPath(i)
                                        /\ r.message = IF id.variant = "Name"
                                                       THEN MsgNormalizedString
                                                       ELSE MsgSpdxIdentifier
            /\ \A i \in 1..Len(node.v) :
                node.v[i].variant = "License" =>
                    ((\E k \in 1..Len(reasons) : reasons[k].context = IdentifierPath(i))
                        <=> BreaksOwnRule(node.v[i].license.license_identifier))

C21_Witness ==
    /\ ValidatedLicenses
    /\ context = <<Struct("Component", "licenses")>>
    /\ node.v = <<LicenseChoice_License(License(Name(<<"a">>), None, None)),
                  LicenseChoice_License(License(Name(<<"a", TAB>>), None, None)),
                  LicenseChoice_License(License(SpdxId(<<"Apache=2.0">>), None, None)),
                  LicenseChoice_Expression(<<"MIT", OR>>)>>
    /\ result = Failed(<<
            FailureReason(MsgNormalizedString,
                context \o <<Array(1), EnumVariant("License"),
                             Struct("License", "license_identifier"), EnumVariant("Name")>>),
            FailureReason(MsgSpdxIdentifier,
                context \o <<Array(2), EnumVariant("License"),
                             Struct("License", "license_identifier"), EnumVariant("SpdxId")>>),
            FailureReason(MsgSpdxExpression,
                context \o <<Array(3), EnumVariant("Expression")>>)>>)

-----------------------------------------------------------------------------
(* Properties of optional and of unconstrained fields *)

\* the element with every absent optional field filled with a valid value
FillAbsent(kind, e) ==
    CASE kind = "Advisories" ->
            Advisory(IF e.title = None THEN Some(<<"a">>) ELSE e.title, e.url)
      [] kind = "Licenses" /\ e.variant = "License" ->
            LicenseChoice_License(
                License(e.license.license_identifier,
                        IF e.license.text = None THEN Some(GoodText) ELSE e.license.text,
                        IF e.license.url = None THEN Some(GoodUri) ELSE e.license.url))
      [] OTHER -> e

\* the property under the other name
Renamed(e) == Property(IF e.name = "name" THEN "other name" ELSE "name", e.value)

\* the optional fields of element e: <<present, violates, message, components>>
OptionalFields(kind, e) ==
    CASE kind = "Advisories" ->
            {<<e.title # None, e.title # None /\ IsBadString(e.title[1]),
               MsgNormalizedString, <<Struct("Advisory", "title")>> >>}
      [] kind = "Licenses" /\ e.variant = "License" ->
            {<<e.license.text # None, e.license.text # None /\ IsBadText(e.license.text[1]),
               MsgAttachedText, <<EnumVariant("License"), Struct("License", "text")>> >>,
             <<e.license.url # None, e.license.url # None /\ IsBadUri(e.license.url[1]),
               MsgUri, <<EnumVariant("License"), Struct("License", "url")>> >>}
      [] OTHER -> {}

\* C22: an absent optional field (Advisory.title, License.text, License.url)
\* gives no reason and changes neither the outcome nor the paths of the other
\* fields; a present optional field is validated as a required field would
\* be, at the path of the parent followed by Struct(record, field). A field
\* without a constraint (Property.name) gives nothing: the validation of a
\* Property does not depend on its name.
C22_AbsentAndUnconstrainedFieldsGiveNothing ==
    ValidatedSequence =>
        LET reasons == ReasonsOf(result)
            Reported(message, path) ==
                \E k \in 1..Len(reasons) : reasons[k] = FailureReason(message, path)
            Mentioned(path) ==
                \E k \in 1..Len(reasons) : reasons[k].context = path
        IN  /\ result = validate_with_context(
                            Node(node.kind,
                                 [i \in 1..Len(node.v) |-> FillAbsent(node.kind, node.v[i])]),
                            context)
            /\ node.kind = "Properties" =>
                    result = validate_with_context(
                                Node(node.kind, [i \in 1..Len(node.v) |-> Renamed(node.v[i])]),
                                context)
            /\ \A i \in 1..Len(node.v) :
                    \A f \in OptionalFields(node.kind, node.v[i]) :
                        LET path == context \o <<Array(i - 1)>> \o f[4]
                        IN  /\ ~f[1] => ~Mentioned(path)
                            /\ f[1] => (Reported(f[3], path) <=> f[2])
                            /\ f[1] => (Mentioned(path) <=> f[2])

C22_Witness ==
    /\ ValidatedLicenses
    /\ context = <<Struct("Component", "licenses")>>
    /\ node.v = <<LicenseChoice_License(License(Name(<<"a">>), None, Some(BadUri))),
                  LicenseChoice_License(License(Name(<<"a">>), Some(BadText), None))>>
    /\ result = Failed(<<
            FailureReason(MsgUri,
                context \o <<Array(0), EnumVariant("License"), Struct("License", "url")>>),
            FailureReason(MsgAttachedText,
                context \o <<Array(1), EnumVariant("License"), Struct("License", "text")>>)>>)

-----------------------------------------------------------------------------
(* Properties of the XML emission of the v1.3 Properties *)

\* write_xml_element has returned; node is the wire value it was called on
Written == op = "write_xml_element"

\* the j-th event of the full emission of the wire Properties `self`
EventAt(self, j) ==
    IF j = 1 THEN start_element("properties", <<>>)
    ELSE IF j = 2 + 3 * Len(self) THEN end_element
    ELSE LET i == ((j - 2) \div 3) + 1
             k == (j - 2) % 3
         IN  CASE k = 0 -> start_element("property", <<attr("name", self[i].name)>>)
               [] k = 1 -> characters(self[i].value)
               [] k = 2 -> end_element

FullEmission(self) == [j \in 1..(2 + 3 * Len(self)) |-> EventAt(self, j)]

\* the number of elements left open by the first k events
RECURSIVE Depth(_, _)
Depth(events, k) ==
    IF k = 0 THEN 0
    ELSE Depth(events, k - 1)
            + (CASE events[k].event = "start_element" -> 1
                 [] events[k].event = "end_element" -> -1
                 [] OTHER -> 0)

\* every end closes an open element, the wrapper stays open until the last
\* event, properties open directly below it and text lies inside a property
WellNested(events) ==
    /\ \A k \in 1..Len(events) :
        /\ Depth(events, k) >= 0
        /\ k < Len(events) => Depth(events, k) >= 1
        /\ (events[k].event = "start_element" /\ k > 1) => Depth(events, k) = 2
        /\ events[k].event = "characters" => Depth(events, k) = 2
    /\ Depth(events, Len(events)) = 0

\* C23: the XML emission of a v1.3 Properties with n properties writes, when
\* no write fails, exactly: start "properties"; then for each property, in
\* the order of the sequence, start "property" with the attribute name,
\* characters(value), end; then a last end. Starts and ends are balanced and
\* nested at every prefix, the name goes out as an attribute and the value as
\* text, and an empty Properties still writes the opening and the closing
\* "properties" tag.
C23_EmissionIsTheFullEventSequence ==
    (Written /\ result.writer.fail_at = 0) =>
        LET events == result.writer.events
        IN  /\ result.ret = Ok(<<>>)
            /\ events = FullEmission(node.v)
            /\ Len(events) = 2 + 3 * Len(node.v)
            /\ WellNested(events)
            /\ \A i \in 1..Len(node.v) :
                /\ events[3 * i - 1].event = "start_element"
                /\ events[3 * i - 1].name = PROPERTY_TAG
                /\ events[3 * i - 1].attributes = <<attr("name", node.v[i].name)>>
                /\ events[3 * i] = characters(node.v[i].value)
            /\ node.v = <<>> =>
                events = <<start_element(PROPERTIES_TAG, <<>>), end_element>>

C23_Witness ==
    /\ Written /\ result.writer.fail_at = 0
    /\ node.v = <<v1_3_Property("name", <<"a">>), v1_3_Property("other name", <<"a", TAB>>)>>
    /\ result.ret = Ok(<<>>)
    /\ result.writer.events =
        <<start_element("properties", <<>>),
          start_element("property", <<attr("name", "name")>>),
          characters(<<"a">>),
          end_element,
          start_element("property", <<attr("name", "other name")>>),
          characters(<<"a", TAB>>),
          end_element,
          end_element>>

\* the tag of the element whose code makes the j-th write of the emission
TagOfWrite(self, j) ==
    IF j = 1 \/ j = 2 + 3 * Len(self) THEN "properties" ELSE "property"

\* C24: if a write to the XML writer fails during write_xml_element, the
\* emission stops at that write: no later event is written (no further
\* property, no closing tag) and the call returns an XmlWriteError with the
\* tag of the element whose write failed ("property" for a failure inside a
\* Property, "properties" for the start or the end of the wrapper); the call
\* returns Ok only if every write succeeded.
C24_FailedWriteStopsEmission ==
    Written =>
        LET writer == result.writer
            f == writer.fail_at
        IN  /\ result.ret.ok <=> (f = 0)
            /\ f # 0 =>
                /\ writer.writes = f
                /\ writer.events = SubSeq(FullEmission(node.v), 1, f - 1)
                /\ result.ret = Err(XmlWriteError(TagOfWrite(node.v, f)))

C24_Witness ==
    /\ Written /\ result.writer.fail_at = 6
    /\ node.v = <<v1_3_Property("name", <<"a">>), v1_3_Property("other name", <<"a", TAB>>)>>
    /\ result.ret = Err(XmlWriteError("property"))
    /\ result.writer.events =
        <<start_element("properties", <<>>),
          start_element("property", <<attr("name", "name")>>),
          characters(<<"a">>),
          end_element,
          start_element("property", <<attr("name", "other name")>>)>>

-----------------------------------------------------------------------------
(* Validation from a starting path against validation from the empty path *)

\* the outcome r with the path p put in front of the path of every reason
Prefixed(r, p) ==
    IF r.tag = "Passed"
    THEN Passed
    ELSE Failed([k \in 1..Len(r.reasons) |->
                    FailureReason(r.reasons[k].message, p \o r.reasons[k].context)])

\* C25: validation is equivariant in the starting path: for every value x
\* and every path p, x.validate_with_context(p) is Passed exactly when
\* x.validate() is, and otherwise its reasons are those of x.validate(), in
\* the same order and with the same messages, the path of each being p
\* followed by the path validate() reports; so every reported path starts
\* with p.
C25_ValidationIsEquivariantInThePath ==
    Validated =>
        LET from_root == validate_with_context(node, ValidationContext_new)
        IN  /\ (result = Passed) <=> (from_root = Passed)
            /\ result = Prefixed(from_root, context)
            /\ \A k \in 1..Len(ReasonsOf(result)) :
                LET path == ReasonsOf(result)[k].context
                IN  /\ Len(path) >= Len(context)
                    /\ SubSeq(path, 1, Len(context)) = context

C25_Witness ==
    /\ Validated /\ node.kind = "Advisories"
    /\ context = <<Struct("Component", "licenses")>>
    /\ node.v = <<Advisory(Some(<<"a">>), GoodUri), Advisory(Some(<<"a", TAB>>), GoodUri)>>
    /\ validate_with_context(node, ValidationContext_new) =
            Failed(<<FailureReason(MsgNormalizedString,
                                   <<Array(1), Struct("Advisory", "title")>>)>>)
    /\ result =
            Failed(<<FailureReason(MsgNormalizedString,
                                   <<Struct("Component", "licenses"), Array(1),
                                     Struct("Advisory", "title")>>)>>)

====
